---------------------------- MODULE Spec2Model ----------------------------
(***************************************************************************)
(* A model of the two algorithmic components of the literature pipeline:   *)
(*   - SignificanceAnalyzer (src/data_processer.py): the threshold sweep   *)
(*     over externally produced significance records;                      *)
(*   - ContentExtractor (src/related_content_extractor.py): exact and      *)
(*     loose term matching with bounded context windows.                   *)
(*                                                                         *)
(* Strings are sequences of characters, Python's 0-based positions are     *)
(* kept (position p is element p + 1 of the sequence).  Floating point     *)
(* percentages are kept as exact fractions <<numerator, denominator>> in   *)
(* lowest terms.                                                           *)
(***************************************************************************)
EXTENDS Integers, Sequences, FiniteSets, TLC

VARIABLES
    \* ---- SignificanceAnalyzer ----
    data,           \* self.data: the value json.load returned
    pc,             \* "idle" | "sweep" (inside the while loop) | "done"
    op,             \* the method being / last executed
    arg,            \* its argument (threshold or start_threshold)
    threshold,      \* local of analyze_all_thresholds
    prev_total,     \* local of analyze_all_thresholds
    results,        \* local of analyze_all_thresholds, returned at the break
    ret,            \* <<stats>> once analyze_by_threshold returned, else <<>>
                    \* (calculate_statistics: <<summary>>, or <<>> for None)
    outcome,        \* "none" | "returned" | "KeyError"
    percentages,    \* local of calculate_statistics
    \* ---- ContentExtractor ----
    files,              \* the *.txt files of input_dir, in glob order
    search_terms,       \* argument of extract_content
    case_sensitive,     \* argument of extract_content
    context_length,     \* self.context_length
    loose_match_length, \* self.loose_match_length
    matches,            \* self.matches
    spans,              \* per match: the start/end _add_match was given and
                        \* the file, term and run it came from (bookkeeping)
    output_file,        \* <<>> while absent, else <<the collection written>>
    epc,                \* "idle" | "files" | "terms" | "exact" | "done"
                        \* ("raised": an exception left extract_content)
    fi,                 \* position in the for loop over txt_files
    ti,                 \* position in the for loop over search_terms
    content,            \* local of _process_file
    start_pos,          \* local of _exact_match
    iters,              \* iterations of the current while loop (bookkeeping)
    run,                \* number of extract_content calls started
    calls_left,         \* extract_content calls the caller will still make
    writes,             \* writes of output_file in the current run
    reported            \* "No matches found" printed in the current run

avars == <<data, pc, op, arg, threshold, prev_total, results, ret, outcome,
           percentages>>

evars == <<files, search_terms, case_sensitive, context_length, loose_match_length,
           matches, spans, output_file, epc, fi, ti, content, start_pos, iters,
           run, calls_left, writes, reported>>

vars == <<avars, evars>>

----------------------------------------------------------------------------
(* Bounds of the model. *)

MaxRecords == 2
MaxCount == 3

(* start_threshold=2, the default argument of analyze_all_thresholds. *)
DefaultStartThreshold == 2

(* Thresholds tried: negative, zero, and beyond every context_count. *)
Thresholds == (0 - 1)..(MaxCount + 2)

(* The while loop of analyze_all_thresholds has no upper limit; the model  *)
(* follows it up to this threshold only.  It lies beyond the threshold at  *)
(* which any sweep over non-empty well-formed records has returned.        *)
SweepLimit == MaxCount + 4

----------------------------------------------------------------------------
(* The analyzer's input: what json.load can return. *)

WellFormedRecords ==
    [context_count : 0..MaxCount, is_significant : BOOLEAN]

(* Records of the input file lacking one of the two fields read. *)
MalformedRecords ==
    [context_count : 0..MaxCount] \cup [is_significant : BOOLEAN]

RECURSIVE SeqsUpTo(_, _)
SeqsUpTo(S, n) ==
    IF n = 0 THEN {<<>>}
    ELSE LET shorter == SeqsUpTo(S, n - 1)
         IN  shorter \cup {Append(s, x) : s \in {t \in shorter : Len(t) = n - 1}, x \in S}

(* A top-level JSON object holding 'significance_results'. *)
DictWith(recs) == [type |-> "dict", fields |-> [significance_results |-> recs]]

(* A top-level JSON object without the key. *)
DictWithoutKey == [type |-> "dict", fields |-> [metadata |-> <<>>]]

(* A top-level JSON value that is not an object (here: a bare list). *)
NotADict == [type |-> "list", fields |-> [metadata |-> <<>>]]

DataValues ==
    {DictWith(recs) : recs \in SeqsUpTo(WellFormedRecords \cup MalformedRecords, MaxRecords)}
        \cup {DictWithoutKey, NotADict}

----------------------------------------------------------------------------
(* Exact fractions for true_count/total*100. *)

RECURSIVE Gcd(_, _)
Gcd(a, b) == IF b = 0 THEN a ELSE Gcd(b, a % b)

Frac(n, d) == LET g == Gcd(n, d) IN <<n \div g, d \div g>>

----------------------------------------------------------------------------
(* SignificanceAnalyzer._count_results: the for loop over                  *)
(* self.data['significance_results'], from record i on, with the counters  *)
(* so far.  result['context_count'] and result['is_significant'] raise     *)
(* KeyError on a record without the field; is_significant is read only     *)
(* when the record passes the filter.                                      *)
RECURSIVE CountLoop(_, _, _, _, _)
CountLoop(recs, i, t, true_count, false_count) ==
    IF i > Len(recs)
    THEN [raised |-> "none", total |-> true_count + false_count,
          true_count |-> true_count, false_count |-> false_count]
    ELSE LET result == recs[i] IN
         IF "context_count" \notin DOMAIN result
         THEN [raised |-> "KeyError", total |-> 0, true_count |-> 0, false_count |-> 0]
         ELSE IF result.context_count < t
              THEN IF "is_significant" \notin DOMAIN result
                   THEN [raised |-> "KeyError", total |-> 0, true_count |-> 0, false_count |-> 0]
                   ELSE IF result.is_significant
                        THEN CountLoop(recs, i + 1, t, true_count + 1, false_count)
                        ELSE CountLoop(recs, i + 1, t, true_count, false_count + 1)
              ELSE CountLoop(recs, i + 1, t, true_count, false_count)

(* The result of _count_results when no record is counted. *)
NothingCounted == [raised |-> "none", total |-> 0, true_count |-> 0, false_count |-> 0]

(* _count_results with the filter written <= instead of <. *)
_count_results_le(d, t) ==
    IF d.type = "dict" /\ "significance_results" \in DOMAIN d.fields
    THEN CountLoop(d.fields.significance_results, 1, t + 1, 0, 0)
    ELSE NothingCounted

(* _count_results with the filter written > instead of <. *)
_count_results_gt(d, t) ==
    IF d.type = "dict" /\ "significance_results" \in DOMAIN d.fields
    THEN LET recs == d.fields.significance_results
             flip(r) == IF "context_count" \in DOMAIN r
                        THEN [r EXCEPT !.context_count = 2 * t - r.context_count]
                        ELSE r
         IN  CountLoop([i \in DOMAIN recs |-> flip(recs[i])], 1, t, 0, 0)
    ELSE NothingCounted

(* SignificanceAnalyzer._count_results: lines 96-106. *)
_count_results(d, t) ==
    IF d.type = "dict" /\ "significance_results" \in DOMAIN d.fields
    THEN CountLoop(d.fields.significance_results, 1, t, 0, 0)
    ELSE NothingCounted

(* SignificanceAnalyzer.analyze_by_threshold: the dictionary returned when *)
(* _count_results raises nothing.                                          *)
analyze_by_threshold(d, t) ==
    LET c == _count_results(d, t) IN
    [threshold |-> t, total |-> c.total,
     true_count |-> c.true_count, false_count |-> c.false_count,
     percentage |-> IF c.total > 0 THEN Frac(c.true_count * 100, c.total)
                    ELSE <<0, 1>>]

(* The exception analyze_by_threshold lets through, "none" if it returns. *)
Raised(d, t) == _count_results(d, t).raised

(* The break condition of the sweep with < written for ==. *)
StabilizedLess(total, prev) == total < prev /\ total > 0

(* The break condition of the sweep: stats['total'] == prev_total and      *)
(* stats['total'] > 0.                                                     *)
Stabilized(total, prev) == total = prev /\ total > 0

----------------------------------------------------------------------------
(* SignificanceAnalyzer.calculate_statistics, on exact fractions. *)

MaxStats == 3

(* The least common denominator of two fractions. *)
Lcd(a, b) == (a[2] \div Gcd(a[2], b[2])) * b[2]

RAdd(a, b) ==
    LET d == Lcd(a, b) IN
    Frac(a[1] * (d \div a[2]) + b[1] * (d \div b[2]), d)

RSub(a, b) ==
    LET d == Lcd(a, b) IN
    Frac(a[1] * (d \div a[2]) - b[1] * (d \div b[2]), d)

RMul(a, b) == Frac(a[1] * b[1], a[2] * b[2])

(* a / n for an integer n > 0 *)
RDiv(a, n) == Frac(a[1], a[2] * n)

(* sum(xs): from 0, left to right. *)
RECURSIVE RSum(_)
RSum(xs) ==
    IF xs = <<>> THEN <<0, 1>>
    ELSE RAdd(RSum(SubSeq(xs, 1, Len(xs) - 1)), xs[Len(xs)])

(* [r['percentage'] for r in results] (line 75) *)
PercentagesOf(rs) == [i \in DOMAIN rs |-> rs[i].percentage]

(* calculate_statistics dividing the squared deviations by n - 1. *)
calculate_statistics_sample(rs) ==
    LET ps == PercentagesOf(rs)
        avg == RDiv(RSum(ps), Len(ps))
        sq == [i \in DOMAIN ps |-> RMul(RSub(ps[i], avg), RSub(ps[i], avg))]
    IN  IF ps = <<>> THEN <<>>
        ELSE <<[average_percentage |-> avg,
                variance |-> IF Len(ps) = 1 THEN <<0, 1>>
                             ELSE RDiv(RSum(sq), Len(ps) - 1)]>>

(* calculate_statistics, lines 75-85: <<>> for None, else the dictionary   *)
(* returned.                                                               *)
calculate_statistics(rs) ==
    LET ps == PercentagesOf(rs)
        avg == RDiv(RSum(ps), Len(ps))
        sq == [i \in DOMAIN ps |-> RMul(RSub(ps[i], avg), RSub(ps[i], avg))]
    IN  IF ps = <<>> THEN <<>>
        ELSE <<[average_percentage |-> avg, variance |-> RDiv(RSum(sq), Len(ps))]>>

(* A ThresholdStat as analyze_by_threshold builds it (lines 32-40). *)
ThresholdStat(t, true_count, false_count) ==
    [threshold |-> t, total |-> true_count + false_count,
     true_count |-> true_count, false_count |-> false_count,
     percentage |-> IF true_count + false_count > 0
                    THEN Frac(true_count * 100, true_count + false_count)
                    ELSE <<0, 1>>]

(* The lists handed to calculate_statistics: up to MaxStats entries with   *)
(* every pair of counts up to MaxRecords.                                  *)
StatLists ==
    SeqsUpTo({ThresholdStat(DefaultStartThreshold, tc, fc) :
                 tc \in 0..MaxRecords, fc \in 0..MaxRecords}, MaxStats)

----------------------------------------------------------------------------
(* ContentExtractor: texts, terms and the string functions it calls. *)

MaxDocLen == 3
MaxTermLen == 2
MaxContext == 1
MaxWindow == 2
MaxFiles == 2
MaxRuns == 2

(* Characters of documents: a lower-case letter, its upper-case form, and  *)
(* "Idot", U+0130 (capital I with dot above), the character whose          *)
(* str.lower() is two characters, "i" followed by U+0307 ("dot").          *)
DocChars == {"i", "I", "Idot"}

(* Terms may also hold the separator of compound terms. *)
TermChars == DocChars \cup {"+"}

Texts == SeqsUpTo(DocChars, MaxDocLen)

(* Two single-character keywords joined by '+'. *)
CompoundTerms == {<<x, "+", y>> : x, y \in DocChars}

Terms == SeqsUpTo(TermChars, MaxTermLen) \cup CompoundTerms

(* A file of input_dir: open/read either yields its text or raises. *)
File(text) == [readable |-> TRUE, text |-> text]

Unreadable == [readable |-> FALSE, text |-> <<>>]

MinOf(a, b) == IF a < b THEN a ELSE b

MaxOf(a, b) == IF a > b THEN a ELSE b

(* str.lower() of one character. *)
LowerChar(c) ==
    CASE c = "I" -> <<"i">>
      [] c = "Idot" -> <<"i", "dot">>
      [] OTHER -> <<c>>

(* str.lower() *)
RECURSIVE Lower(_)
Lower(s) == IF s = <<>> THEN <<>> ELSE LowerChar(Head(s)) \o Lower(Tail(s))

(* s[lo:hi]: Python's slice, negative indices counted from the end, both   *)
(* clamped to the string, empty when lo >= hi.                             *)
PySlice(s, lo, hi) ==
    LET norm(x) == IF x < 0 THEN MaxOf(x + Len(s), 0) ELSE MinOf(x, Len(s))
        l == norm(lo)
        h == norm(hi)
    IN  IF l >= h THEN <<>> ELSE SubSeq(s, l + 1, h)

(* s[p:p+len(sub)] == sub *)
StartsAt(s, sub, p) ==
    /\ p + Len(sub) <= Len(s)
    /\ \A j \in 1..Len(sub) : s[p + j] = sub[j]

(* str.find(sub, start) for start >= 0: the lowest position >= start at    *)
(* which sub occurs, -1 if none (the empty string occurs at every          *)
(* position up to len(s)).                                                 *)
RECURSIVE Find(_, _, _)
Find(s, sub, start) ==
    IF start + Len(sub) > Len(s) THEN 0 - 1
    ELSE IF StartsAt(s, sub, start) THEN start
    ELSE Find(s, sub, start + 1)

(* sub in s *)
Contains(s, sub) == Find(s, sub, 0) # 0 - 1

(* term.split("+"), reading term from character i on; cur is the keyword   *)
(* being read, acc the keywords completed.                                 *)
RECURSIVE SplitFrom(_, _, _, _)
SplitFrom(term, i, cur, acc) ==
    IF i > Len(term) THEN Append(acc, cur)
    ELSE IF term[i] = "+" THEN SplitFrom(term, i + 1, <<>>, Append(acc, cur))
    ELSE SplitFrom(term, i + 1, Append(cur, term[i]), acc)

Split(term) == SplitFrom(term, 1, <<>>, <<>>)

(* "+" in term *)
IsCompound(term) == \E j \in DOMAIN term : term[j] = "+"

(* search_content of _process_file (line 60). *)
SearchContent(text, cs) == IF cs THEN text ELSE Lower(text)

(* search_term of _exact_match (line 103). *)
SearchTerm(term, cs) == IF cs THEN term ELSE Lower(term)

(* keywords of _loose_match (lines 81-83). *)
Keywords(term, cs) ==
    LET ks == Split(term) IN
    IF cs THEN ks ELSE [j \in DOMAIN ks |-> Lower(ks[j])]

(* The window of _loose_match at offset i (lines 86-87). *)
WindowEnd(sc, L, i) == MinOf(i + L, Len(sc))

Window(sc, L, i) == PySlice(sc, i, WindowEnd(sc, L, i))

(* all(k in window for k in keywords) *)
AllIn(window, keywords) == \A j \in DOMAIN keywords : Contains(window, keywords[j])

(* The for loop of _loose_match from offset i on: the offset at which it   *)
(* adds a match and breaks, -1 if it runs to the end.                      *)
RECURSIVE LooseScan(_, _, _, _)
LooseScan(sc, keywords, L, i) ==
    IF i >= Len(sc) THEN 0 - 1
    ELSE IF AllIn(Window(sc, L, i), keywords) THEN i
    ELSE LooseScan(sc, keywords, L, i + 1)

(* The loop of _loose_match written as range(1, len(search_content)). *)
LooseFirstOffsetFromOne(sc, keywords, L) == LooseScan(sc, keywords, L, 1)

(* _loose_match: the offset of the match, -1 if none. *)
LooseFirstOffset(sc, keywords, L) == LooseScan(sc, keywords, L, 0)

(* _add_match without the max(0, ...) clamp of context_start. *)
add_match_context_unclamped(text, start, end, W) ==
    PySlice(text, start - W, MinOf(Len(text), end + W))

(* _add_match, lines 125-126 and 132: the context stored. *)
add_match_context(text, start, end, W) ==
    PySlice(text, MaxOf(0, start - W), MinOf(Len(text), end + W))

(* _add_match, lines 128-133: the dictionary appended (file_name is the    *)
(* file's position in txt_files).                                          *)
NewMatch(text, start, end, term, file, match_type, W) ==
    [file_name |-> file, match_type |-> match_type, match_term |-> term,
     context |-> add_match_context(text, start, end, W)]

(* The extractor's variables when the extractor is not exercised. *)
ExtractorUnused ==
    /\ files = <<>>
    /\ search_terms = <<>>
    /\ case_sensitive = TRUE
    /\ context_length = 0
    /\ loose_match_length = 0
    /\ matches = <<>>
    /\ spans = <<>>
    /\ output_file = <<>>
    /\ epc = "idle"
    /\ fi = 0
    /\ ti = 0
    /\ content = <<>>
    /\ start_pos = 0
    /\ iters = 0
    /\ run = 0
    /\ calls_left = 0
    /\ writes = 0
    /\ reported = FALSE

----------------------------------------------------------------------------
(* Actions of the analyzer. *)

(* The analyzer before any call, self.data aside. *)
AnalyzerIdle ==
    /\ pc = "idle"
    /\ op = "none"
    /\ arg = 0
    /\ threshold = 0
    /\ prev_total = 0
    /\ results = <<>>
    /\ ret = <<>>
    /\ outcome = "none"
    /\ percentages = <<>>

AInit ==
    /\ data \in DataValues
    /\ ExtractorUnused
    /\ pc = "idle"
    /\ op = "none"
    /\ arg = 0
    /\ threshold = 0
    /\ prev_total = 0
    /\ results = <<>>
    /\ ret = <<>>
    /\ outcome = "none"
    /\ percentages = <<>>

(* A call analyzer.analyze_by_threshold(t), start to end. *)
AnalyzeByThreshold ==
    /\ pc = "idle"
    /\ \E t \in Thresholds :
        /\ op' = "analyze_by_threshold"
        /\ arg' = t
        /\ ret' = IF Raised(data, t) = "none"
                  THEN <<analyze_by_threshold(data, t)>> ELSE <<>>
        /\ outcome' = IF Raised(data, t) = "none" THEN "returned" ELSE Raised(data, t)
    /\ pc' = "done"
    /\ UNCHANGED <<data, threshold, prev_total, results, percentages>>
    /\ UNCHANGED evars

(* A call analyzer.analyze_all_thresholds(s): lines 51-53. *)
AnalyzeAllThresholds ==
    /\ pc = "idle"
    /\ \E s \in Thresholds :
        /\ arg' = s
        /\ threshold' = s
    /\ op' = "analyze_all_thresholds"
    /\ results' = <<>>
    /\ prev_total' = 0
    /\ pc' = "sweep"
    /\ UNCHANGED <<data, ret, outcome, percentages>>
    /\ UNCHANGED evars

(* The loop with results.append(stats) placed before the break. *)
SweepIterationAppendsFirst ==
    /\ pc = "sweep"
    /\ threshold <= SweepLimit
    /\ LET stats == analyze_by_threshold(data, threshold) IN
        IF Raised(data, threshold) # "none"
        THEN /\ pc' = "done"
             /\ outcome' = Raised(data, threshold)
             /\ UNCHANGED <<results, prev_total, threshold>>
        ELSE /\ results' = Append(results, stats)
             /\ IF Stabilized(stats.total, prev_total)
                THEN /\ pc' = "done"
                     /\ outcome' = "returned"
                     /\ UNCHANGED <<prev_total, threshold>>
                ELSE /\ prev_total' = stats.total
                     /\ threshold' = threshold + 1
                     /\ UNCHANGED <<pc, outcome>>
    /\ UNCHANGED <<data, op, arg, ret, percentages>>
    /\ UNCHANGED evars

(* One iteration of the while True loop: lines 56-62. *)
SweepIteration ==
    /\ pc = "sweep"
    /\ threshold <= SweepLimit
    /\ LET stats == analyze_by_threshold(data, threshold) IN
        IF Raised(data, threshold) # "none"
        THEN /\ pc' = "done"
             /\ outcome' = Raised(data, threshold)
             /\ UNCHANGED <<results, prev_total, threshold>>
        ELSE IF Stabilized(stats.total, prev_total)
             THEN /\ pc' = "done"
                  /\ outcome' = "returned"
                  /\ UNCHANGED <<results, prev_total, threshold>>
             ELSE /\ results' = Append(results, stats)
                  /\ prev_total' = stats.total
                  /\ threshold' = threshold + 1
                  /\ UNCHANGED <<pc, outcome>>
    /\ UNCHANGED <<data, op, arg, ret, percentages>>
    /\ UNCHANGED evars

(* The caller has consumed the result; the analyzer keeps only self.data. *)
AnalyzerReturn ==
    /\ pc = "done"
    /\ pc' = "idle"
    /\ op' = "none"
    /\ arg' = 0
    /\ threshold' = 0
    /\ prev_total' = 0
    /\ results' = <<>>
    /\ ret' = <<>>
    /\ outcome' = "none"
    /\ percentages' = <<>>
    /\ UNCHANGED data
    /\ UNCHANGED evars

(* A call analyzer.calculate_statistics(rs), start to end. *)
CalculateStatistics ==
    /\ pc = "idle"
    /\ \E rs \in StatLists :
        /\ percentages' = PercentagesOf(rs)
        /\ ret' = calculate_statistics(rs)
    /\ op' = "calculate_statistics"
    /\ outcome' = "returned"
    /\ pc' = "done"
    /\ UNCHANGED <<data, arg, threshold, prev_total, results>>
    /\ UNCHANGED evars

(* main, line 60: calculate_statistics on what the sweep returned. *)
CalculateSweepStatistics ==
    /\ pc = "done"
    /\ op = "analyze_all_thresholds"
    /\ outcome = "returned"
    /\ percentages' = PercentagesOf(results)
    /\ ret' = calculate_statistics(results)
    /\ op' = "calculate_statistics"
    /\ UNCHANGED <<data, pc, arg, threshold, prev_total, results, outcome>>
    /\ UNCHANGED evars

ANext ==
    \/ AnalyzeByThreshold
    \/ AnalyzeAllThresholds
    \/ SweepIteration
    \/ CalculateSweepStatistics
    \/ AnalyzerReturn

AnalyzerSpec == AInit /\ [][ANext]_vars

(* The interpreter keeps executing the loop: an enabled iteration is taken. *)
AnalyzerFairSpec == AnalyzerSpec /\ WF_vars(SweepIteration)

(* calculate_statistics reads only its argument: the calls on every list   *)
(* of StatLists, on an analyzer that loaded an empty record list.          *)
StatisticsInit ==
    /\ data = DictWith(<<>>)
    /\ ExtractorUnused
    /\ AnalyzerIdle

StatisticsNext ==
    \/ CalculateStatistics
    \/ AnalyzerReturn

StatisticsSpec == StatisticsInit /\ [][StatisticsNext]_vars

----------------------------------------------------------------------------
(* Actions of the extractor. *)

(* The while loop of _exact_match has no upper limit; the model follows it *)
(* for this many iterations.  A loop that advances by at least one         *)
(* character per match needs at most len(search_content) + 2 of them.      *)
ExactLoopLimit(sc) == Len(sc) + 2

(* The state __init__ leaves (line 31), before any call; the analyzer is   *)
(* not exercised.                                                          *)
ExtractorConstructed ==
    /\ matches = <<>>
    /\ spans = <<>>
    /\ output_file = <<>>
    /\ epc = "idle"
    /\ fi = 0
    /\ ti = 0
    /\ content = <<>>
    /\ start_pos = 0
    /\ iters = 0
    /\ run = 0
    /\ writes = 0
    /\ reported = FALSE
    /\ data = NotADict
    /\ AnalyzerIdle

(* One document (or one unreadable file), one term, one extraction run:    *)
(* every text and term up to the bounds, both case modes.                  *)
MatchInit ==
    /\ files \in {<<File(t)>> : t \in Texts} \cup {<<Unreadable>>}
    /\ search_terms \in {<<t>> : t \in Terms}
    /\ case_sensitive \in BOOLEAN
    /\ context_length \in 0..MaxContext
    /\ loose_match_length \in 1..MaxWindow
    /\ calls_left = 1
    /\ ExtractorConstructed

(* Texts and terms of the runs over several files and terms. *)
RunFiles == {File(<<>>), File(<<"i">>), File(<<"i", "I">>), Unreadable}

RunTerms == {<<>>, <<"i">>, <<"I">>, <<"i", "+", "I">>}

RunTermLists == {<<t>> : t \in RunTerms} \cup {<<t, u>> : t, u \in RunTerms}

(* Up to MaxFiles files, one or two terms, up to MaxRuns extraction runs   *)
(* on the same extractor.                                                  *)
RunInit ==
    /\ files \in SeqsUpTo(RunFiles, MaxFiles)
    /\ search_terms \in RunTermLists
    /\ case_sensitive \in BOOLEAN
    /\ context_length = MaxContext
    /\ loose_match_length = MaxWindow
    /\ calls_left = MaxRuns
    /\ ExtractorConstructed

(* extract_content, lines 40-41: the call starts; self.matches is what     *)
(* earlier calls left.                                                     *)
ExtractContent ==
    /\ epc \in {"idle", "done"}
    /\ calls_left > 0
    /\ calls_left' = calls_left - 1
    /\ run' = run + 1
    /\ fi' = 1
    /\ epc' = "files"
    /\ writes' = 0
    /\ reported' = FALSE
    /\ UNCHANGED <<files, search_terms, case_sensitive, context_length,
                   loose_match_length, matches, spans, output_file, ti, content,
                   start_pos, iters>>
    /\ UNCHANGED avars

(* _process_file without its try/except: the failure of open/read leaves   *)
(* extract_content as an exception.                                        *)
ProcessFileUncaught ==
    /\ epc = "files"
    /\ fi <= Len(files)
    /\ IF files[fi].readable
       THEN /\ content' = files[fi].text
            /\ ti' = 1
            /\ epc' = "terms"
            /\ UNCHANGED fi
       ELSE /\ epc' = "raised"
            /\ UNCHANGED <<content, ti, fi>>
    /\ UNCHANGED <<files, search_terms, case_sensitive, context_length,
                   loose_match_length, matches, spans, output_file, start_pos,
                   iters, run, calls_left, writes, reported>>
    /\ UNCHANGED avars

(* _process_file, lines 56-60: the file is read; a failure is caught at    *)
(* line 68 and the for loop of extract_content goes on.                    *)
ProcessFile ==
    /\ epc = "files"
    /\ fi <= Len(files)
    /\ IF files[fi].readable
       THEN /\ content' = files[fi].text
            /\ ti' = 1
            /\ epc' = "terms"
            /\ UNCHANGED fi
       ELSE /\ fi' = fi + 1
            /\ UNCHANGED <<content, ti, epc>>
    /\ UNCHANGED <<files, search_terms, case_sensitive, context_length,
                   loose_match_length, matches, spans, output_file, start_pos,
                   iters, run, calls_left, writes, reported>>
    /\ UNCHANGED avars

(* _process_file, line 62 exhausted: back in the loop of extract_content. *)
ProcessFileEnd ==
    /\ epc = "terms"
    /\ ti > Len(search_terms)
    /\ fi' = fi + 1
    /\ epc' = "files"
    /\ content' = <<>>
    /\ iters' = 0
    /\ start_pos' = 0
    /\ UNCHANGED <<files, search_terms, case_sensitive, context_length,
                   loose_match_length, matches, spans, output_file, ti, run,
                   calls_left, writes, reported>>
    /\ UNCHANGED avars

(* Lines 63-64 and _loose_match, start to end. *)
LooseMatch ==
    /\ epc = "terms"
    /\ ti <= Len(search_terms)
    /\ IsCompound(search_terms[ti])
    /\ LET term == search_terms[ti]
           sc == SearchContent(content, case_sensitive)
           i == LooseFirstOffset(sc, Keywords(term, case_sensitive), loose_match_length)
           window_end == WindowEnd(sc, loose_match_length, i)
       IN  IF i = 0 - 1
           THEN UNCHANGED <<matches, spans>>
           ELSE /\ matches' = Append(matches,
                        NewMatch(content, i, window_end, term, fi, "loose_match",
                                 context_length))
                /\ spans' = Append(spans,
                        [start |-> i, end |-> window_end, file |-> fi, term |-> ti,
                         run |-> run])
    /\ ti' = ti + 1
    /\ iters' = 0
    /\ start_pos' = 0
    /\ UNCHANGED <<files, search_terms, case_sensitive, context_length,
                   loose_match_length, output_file, epc, fi, content, run,
                   calls_left, writes, reported>>
    /\ UNCHANGED avars

(* Lines 65-66 and _exact_match, lines 103-104: the while loop is entered. *)
ExactMatch ==
    /\ epc = "terms"
    /\ ti <= Len(search_terms)
    /\ ~IsCompound(search_terms[ti])
    /\ epc' = "exact"
    /\ start_pos' = 0
    /\ iters' = 0
    /\ UNCHANGED <<files, search_terms, case_sensitive, context_length,
                   loose_match_length, matches, spans, output_file, fi, ti,
                   content, run, calls_left, writes, reported>>
    /\ UNCHANGED avars

(* The span end _exact_match passes to _add_match and resumes the search   *)
(* at: pos + len(term) (lines 111-112).                                    *)
ExactEnd(pos, term, cs) == pos + Len(term)

(* One iteration of the while loop of _exact_match, lines 107-112. *)
ExactIteration ==
    /\ epc = "exact"
    /\ iters < ExactLoopLimit(SearchContent(content, case_sensitive))
    /\ LET term == search_terms[ti]
           sc == SearchContent(content, case_sensitive)
           pos == Find(sc, SearchTerm(term, case_sensitive), start_pos)
           end == ExactEnd(pos, term, case_sensitive)
       IN  IF pos = 0 - 1
           THEN /\ epc' = "terms"
                /\ ti' = ti + 1
                /\ UNCHANGED <<matches, spans, start_pos>>
           ELSE /\ matches' = Append(matches,
                        NewMatch(content, pos, end, term, fi, "exact_match",
                                 context_length))
                /\ spans' = Append(spans,
                        [start |-> pos, end |-> end, file |-> fi, term |-> ti,
                         run |-> run])
                /\ start_pos' = end
                /\ UNCHANGED <<epc, ti>>
    /\ iters' = iters + 1
    /\ UNCHANGED <<files, search_terms, case_sensitive, context_length,
                   loose_match_length, output_file, fi, content, run, calls_left,
                   writes, reported>>
    /\ UNCHANGED avars

(* _save_results with its test dropped. *)
HasMatchesAlways(m) == TRUE

(* if self.matches: (line 137) *)
HasMatches(m) == m # <<>>

(* extract_content, line 46, and _save_results: the loop over the files is *)
(* exhausted.                                                              *)
SaveResults ==
    /\ epc = "files"
    /\ fi > Len(files)
    /\ IF HasMatches(matches)
       THEN /\ output_file' = <<matches>>
            /\ writes' = writes + 1
            /\ UNCHANGED reported
       ELSE /\ reported' = TRUE
            /\ UNCHANGED <<output_file, writes>>
    /\ epc' = "done"
    /\ UNCHANGED <<files, search_terms, case_sensitive, context_length,
                   loose_match_length, matches, spans, fi, ti, content, start_pos,
                   iters, run, calls_left>>
    /\ UNCHANGED avars

ENext ==
    \/ ExtractContent
    \/ ProcessFile
    \/ ProcessFileEnd
    \/ LooseMatch
    \/ ExactMatch
    \/ ExactIteration
    \/ SaveResults

(* One (document, term) pair. *)
MatchSpec == MatchInit /\ [][ENext]_vars

(* Whole runs over several files and terms. *)
RunSpec == RunInit /\ [][ENext]_vars

----------------------------------------------------------------------------
(* Shapes of the analyzer's input the claims speak about. *)

HasResults(d) == d.type = "dict" /\ "significance_results" \in DOMAIN d.fields

RecordsOf(d) == d.fields.significance_results

IsWellFormedRecord(r) == DOMAIN r = {"context_count", "is_significant"}

(* A record set: the expected object, every record with both fields. *)
WellFormed(d) ==
    /\ HasResults(d)
    /\ \A i \in DOMAIN RecordsOf(d) : IsWellFormedRecord(RecordsOf(d)[i])

WellFormedNonEmpty(d) == WellFormed(d) /\ RecordsOf(d) # <<>>

(* No record at all: no usable list, or an empty one. *)
NoRecords(d) == ~HasResults(d) \/ RecordsOf(d) = <<>>

(* The indices of the records a threshold admits, with a given label. *)
Admitted(d, t, label) ==
    {i \in DOMAIN RecordsOf(d) :
        RecordsOf(d)[i].context_count < t /\ RecordsOf(d)[i].is_significant = label}

SweepReturned ==
    pc = "done" /\ op = "analyze_all_thresholds" /\ outcome = "returned"

ByThresholdReturned ==
    pc = "done" /\ op = "analyze_by_threshold" /\ outcome = "returned"

----------------------------------------------------------------------------
(* C1: on a non-empty set of well-formed records, for every start          *)
(* threshold, a sweep that has entered its loop eventually reaches the     *)
(* break and returns.                                                      *)
C1_SweepTerminates ==
    (pc = "sweep" /\ WellFormedNonEmpty(data)) ~> SweepReturned

(* A sweep from the default start over two records that returned after     *)
(* more than one iteration.                                                *)
C1_Witness ==
    /\ SweepReturned
    /\ WellFormedNonEmpty(data)
    /\ arg = DefaultStartThreshold
    /\ Len(results) >= 2

(* C2: the last entry of a returned sweep over non-empty well-formed       *)
(* records has total = number of records.                                  *)
C2_FinalTotalIsAllRecords ==
    (SweepReturned /\ WellFormedNonEmpty(data)) =>
        /\ results # <<>>
        /\ results[Len(results)].total = Len(RecordsOf(data))

(* C3: a sweep that finds no record stops at a cap and reports             *)
(* SweepDidNotStabilizeError.  The cap is the one the design notes name:   *)
(* (the largest context_count, 0 without records) + 2 iterations.          *)
C3_SweepStopsAtCap ==
    (op = "analyze_all_thresholds" /\ NoRecords(data) /\ Len(results) > 2) =>
        (pc = "done" /\ outcome = "SweepDidNotStabilizeError")

(* C4: malformed input never yields a normal return.  (The claim asks for  *)
(* a MalformedInputError; any failure is accepted here.)                   *)
C4_MalformedInputFails ==
    (pc = "done" /\ ~WellFormed(data)) => outcome # "returned"

(* C5: analyze_by_threshold on a record set (the empty one included)       *)
(* returns, with true_count and false_count the numbers of admitted        *)
(* records of each label, total their sum, and percentage                  *)
(* true_count/total*100, or 0 when total is 0.                             *)
C5_AnalyzeByThreshold ==
    (pc = "done" /\ op = "analyze_by_threshold" /\ WellFormed(data)) =>
        /\ outcome = "returned"
        /\ Len(ret) = 1
        /\ LET s == ret[1] IN
            /\ s.threshold = arg
            /\ s.true_count = Cardinality(Admitted(data, arg, TRUE))
            /\ s.false_count = Cardinality(Admitted(data, arg, FALSE))
            /\ s.total = s.true_count + s.false_count
            /\ s.percentage[2] > 0
            /\ s.total > 0 => s.percentage[1] * s.total = s.true_count * 100 * s.percentage[2]
            /\ s.total = 0 => s.percentage = <<0, 1>>

(* Two records, one admitted and significant, one filtered out. *)
C5_Witness ==
    /\ ByThresholdReturned
    /\ WellFormed(data)
    /\ Len(RecordsOf(data)) = 2
    /\ ret[1].total = 1
    /\ ret[1].percentage = <<100, 1>>

(* C6: over one record set the total never decreases as the threshold      *)
(* grows: the total a call returned is at most the total of every larger   *)
(* threshold and at least that of every smaller one, and the totals of a   *)
(* sweep's entries are non-decreasing.                                     *)
C6_ThresholdMonotone ==
    /\ (ByThresholdReturned /\ WellFormed(data)) =>
            \A t \in Thresholds :
                /\ arg < t => ret[1].total <= analyze_by_threshold(data, t).total
                /\ t < arg => analyze_by_threshold(data, t).total <= ret[1].total
    /\ \A i \in 1..(Len(results) - 1) : results[i].total <= results[i + 1].total

(* A sweep whose total grew from one entry to the next. *)
C6_Witness ==
    /\ op = "analyze_all_thresholds"
    /\ Len(results) >= 2
    /\ results[1].total < results[2].total

----------------------------------------------------------------------------
(* What the claims about one (document, term) pair speak about. *)

TheFile == files[1]

TheTerm == search_terms[1]

(* The view of the document the search ran on. *)
TheSearchContent == SearchContent(TheFile.text, case_sensitive)

(* The positions at which sub occurs in s. *)
Occurrences(s, sub) == {p \in 0..Len(s) : StartsAt(s, sub, p)}

SetMin(S) == CHOOSE x \in S : \A y \in S : x <= y

(* The leftmost-first non-overlapping occurrences of sub in s from         *)
(* position from on: the leftmost one, then those after its end.           *)
RECURSIVE NonOverlapping(_, _, _)
NonOverlapping(s, sub, from) ==
    LET rest == {p \in Occurrences(s, sub) : p >= from} IN
    IF rest = {} THEN <<>>
    ELSE <<SetMin(rest)>> \o NonOverlapping(s, sub, SetMin(rest) + Len(sub))

(* Keyword k lies inside positions [from, to) of s. *)
OccursWithin(s, k, from, to) ==
    \E p \in from..to : p + Len(k) <= to /\ StartsAt(s, k, p)

(* The offsets whose window holds every keyword. *)
LooseHits(s, keywords, L) ==
    {i \in 0..(Len(s) - 1) :
        \A j \in DOMAIN keywords :
            OccursWithin(s, keywords[j], i, MinOf(i + L, Len(s)))}

(* C7: for a single non-empty term the Exact matches are the leftmost-     *)
(* first non-overlapping occurrences of the (folded) term in the (folded)  *)
(* text: as many matches as occurrences, spans [pos, pos + len(term))      *)
(* increasing and disjoint, each span an occurrence of the term.           *)
C7_ExactMatches ==
    (epc = "done" /\ TheFile.readable /\ ~IsCompound(TheTerm) /\ TheTerm # <<>>) =>
        LET st == SearchTerm(TheTerm, case_sensitive)
            occ == NonOverlapping(TheSearchContent, st, 0)
        IN  /\ Len(matches) = Len(occ)
            /\ \A n \in DOMAIN matches :
                /\ matches[n].match_type = "exact_match"
                /\ spans[n].end = spans[n].start + Len(TheTerm)
                /\ PySlice(TheSearchContent, spans[n].start, spans[n].end) = st
            /\ \A n \in 1..(Len(matches) - 1) : spans[n].end <= spans[n + 1].start

(* The statement of C7 where folding keeps the term's length (always, in   *)
(* a case-sensitive search): it holds there.                               *)
ExactMatchesWhenFoldKeepsLength ==
    Len(SearchTerm(TheTerm, case_sensitive)) = Len(TheTerm) => C7_ExactMatches

(* C8: for a compound term at most one match is emitted; after the run     *)
(* there is exactly one Loose match when some offset's window holds every  *)
(* keyword, it starts at the smallest such offset and spans that window,   *)
(* and there is none when no offset qualifies.                             *)
C8_LooseMatch ==
    (TheFile.readable /\ IsCompound(TheTerm)) =>
        LET hits == LooseHits(TheSearchContent, Keywords(TheTerm, case_sensitive),
                              loose_match_length)
        IN  /\ Len(matches) <= 1
            /\ epc = "done" =>
                IF hits = {} THEN matches = <<>>
                ELSE /\ Len(matches) = 1
                     /\ matches[1].match_type = "loose_match"
                     /\ matches[1].match_term = TheTerm
                     /\ spans[1].start = SetMin(hits)
                     /\ spans[1].end = MinOf(SetMin(hits) + loose_match_length,
                                             Len(TheSearchContent))

(* A loose match of two non-empty keywords found at an offset other than 0. *)
C8_Witness ==
    /\ epc = "done"
    /\ TheFile.readable
    /\ TheTerm \in CompoundTerms
    /\ Len(matches) = 1
    /\ spans[1].start > 0

(* C9: the context of every match is the original text between             *)
(* max(0, start - W) and min(len(text), end + W), character by character   *)
(* (empty when the first bound is not below the second); it is at most     *)
(* 2W + (end - start) long and every character of it is read at a          *)
(* position inside the text.                                               *)
C9_ContextClamped ==
    \A n \in DOMAIN matches :
        LET text == files[spans[n].file].text
            lo == MaxOf(0, spans[n].start - context_length)
            hi == MinOf(Len(text), spans[n].end + context_length)
            ctx == matches[n].context
        IN  /\ Len(ctx) = MaxOf(0, hi - lo)
            /\ \A j \in 1..Len(ctx) : lo + j \in 1..Len(text) /\ ctx[j] = text[lo + j]
            /\ Len(ctx) <= 2 * context_length + (spans[n].end - spans[n].start)

(* A case-insensitive match at the start of the document whose context is  *)
(* clamped on the left and keeps an upper-case character of the original.  *)
C9_Witness ==
    /\ ~case_sensitive
    /\ context_length > 0
    /\ \E n \in DOMAIN matches :
        /\ spans[n].start = 0
        /\ Len(matches[n].context) < 2 * context_length + (spans[n].end - spans[n].start)
        /\ \E j \in DOMAIN matches[n].context : matches[n].context[j] = "I"

(* C10: in a run the output file is written at most once, only when the    *)
(* loop over the files is exhausted; at the end of the run it has been     *)
(* written exactly when self.matches is non-empty (and then holds          *)
(* self.matches); with no match no file exists and "No matches found" was  *)
(* reported.                                                               *)
C10_SavedOnceAtEnd ==
    /\ writes <= 1
    /\ writes = 1 => (epc = "done" /\ fi > Len(files))
    /\ epc = "done" =>
        /\ writes = 1 <=> matches # <<>>
        /\ matches # <<>> => (output_file = <<matches>> /\ ~reported)
        /\ matches = <<>> => (output_file = <<>> /\ reported)

(* A first run over two files that wrote matches of the second file. *)
C10_Witness ==
    /\ epc = "done"
    /\ run = 1
    /\ writes = 1
    /\ \E n \in DOMAIN spans : spans[n].file = 2

----------------------------------------------------------------------------
(* What the claims about whole runs speak about. *)

(* The matches the current run added for file f and term t. *)
RunMatches(f, t) ==
    {n \in DOMAIN spans : spans[n].file = f /\ spans[n].term = t /\ spans[n].run = run}

(* The number of matches a readable text holds for a non-empty term. *)
ExpectedMatches(text, term) ==
    LET sc == SearchContent(text, case_sensitive) IN
    IF IsCompound(term)
    THEN IF LooseHits(sc, Keywords(term, case_sensitive), loose_match_length) = {}
         THEN 0 ELSE 1
    ELSE Len(NonOverlapping(sc, SearchTerm(term, case_sensitive), 0))

(* C11: a file whose read fails raises nothing out of the run and adds no  *)
(* match, and the run goes on: when it ends, every readable file has been  *)
(* matched against every term, and the matches found are in the file       *)
(* written.                                                                *)
C11_UnreadableFileSkipped ==
    /\ epc # "raised"
    /\ \A n \in DOMAIN spans : files[spans[n].file].readable
    /\ epc = "done" =>
        /\ \A f \in DOMAIN files : files[f].readable =>
                \A t \in DOMAIN search_terms : search_terms[t] # <<>> =>
                    Cardinality(RunMatches(f, t)) =
                        ExpectedMatches(files[f].text, search_terms[t])
        /\ matches # <<>> => output_file = <<matches>>

(* A run whose first file could not be read and whose second file gave     *)
(* matches that were written.                                              *)
C11_Witness ==
    /\ epc = "done"
    /\ run = 1
    /\ Len(files) = 2
    /\ ~files[1].readable
    /\ RunMatches(2, 1) # {}
    /\ output_file = <<matches>>

----------------------------------------------------------------------------
(* The sum of the squares of a list of fractions. *)
SumOfSquares(xs) == RSum([i \in DOMAIN xs |-> RMul(xs[i], xs[i])])

(* C12: calculate_statistics returns None exactly for the empty list;      *)
(* otherwise n * average is the sum of the percentages and the variance is *)
(* the population variance, here in the form (mean of the squares) minus   *)
(* (square of the mean), all as fractions in lowest terms.  For            *)
(* [50, 50, 100] the average is 200/3 (66.67) and the variance 5000/9      *)
(* (555.56).                                                               *)
C12_Statistics ==
    (pc = "done" /\ op = "calculate_statistics") =>
        /\ outcome = "returned"
        /\ ret = <<>> <=> percentages = <<>>
        /\ percentages # <<>> =>
            LET n == Len(percentages)
                avg == ret[1].average_percentage
                var == ret[1].variance
            IN  /\ Len(ret) = 1
                /\ avg[2] > 0 /\ var[2] > 0
                /\ avg = Frac(avg[1], avg[2]) /\ var = Frac(var[1], var[2])
                /\ RMul(avg, <<n, 1>>) = RSum(percentages)
                /\ RAdd(var, RMul(avg, avg)) = RDiv(SumOfSquares(percentages), n)
        /\ percentages = <<(<<50, 1>>), (<<50, 1>>), (<<100, 1>>)>> =>
            /\ ret[1].average_percentage = <<200, 3>>
            /\ ret[1].variance = <<5000, 9>>

(* The call on percentages [50, 50, 100]. *)
C12_Witness ==
    /\ pc = "done"
    /\ op = "calculate_statistics"
    /\ percentages = <<(<<50, 1>>), (<<50, 1>>), (<<100, 1>>)>>
    /\ Len(ret) = 1

----------------------------------------------------------------------------
(* Records A (context_count 1, significant) and B (context_count 3, not). *)
RecordsAB ==
    <<[context_count |-> 1, is_significant |-> TRUE],
      [context_count |-> 3, is_significant |-> FALSE]>>

----------------------------------------------------------------------------
(* C14: the collection a run leaves and writes holds exactly the matches   *)
(* that run discovered, whatever earlier runs on the same extractor found: *)
(* every match in it was added by the current run.                         *)
C14_RunsAreIndependent ==
    (epc = "done" /\ matches # <<>>) =>
        /\ output_file = <<matches>>
        /\ Len(spans) = Len(matches)
        /\ \A n \in DOMAIN spans : spans[n].run = run

----------------------------------------------------------------------------
(* C15: the exact-match loop finishes within a number of iterations        *)
(* bounded by the document length, for every term, the empty one included. *)
(* A loop that moves the search on by at least one character per match     *)
(* finds at most len(search_content) + 1 matches (the empty term, once per *)
(* position) and leaves with the next find, so it is never still running   *)
(* after len(search_content) + 2 iterations.  (The loose scan is a for     *)
(* loop over range(len(search_content)) and is taken whole by LooseMatch.) *)
C15_ExactLoopBounded ==
    epc = "exact" => iters <= Len(SearchContent(content, case_sensitive)) + 1

=============================================================================
